---- MODULE Spec2Model ----
(***************************************************************************)
(* Model of two independent programs of the repository:                    *)
(*   - run_batch_optimizations (opt_test2.py): the batch optimizer loop,   *)
(*     specification BatchSpec;                                            *)
(*   - SlabMaker (slabmaker.py): the slab builder object, specification    *)
(*     SlabSpec.                                                           *)
(* The external libraries (ASE read/write/BFGS/surface, fairchem) are the  *)
(* environment: their outcomes are nondeterministic choices.               *)
(***************************************************************************)
EXTENDS Integers, Sequences, FiniteSets, TLC

(* ------------------------------ bounds --------------------------------- *)
\* number of distinct file names that can match the glob pattern
MaxFiles == 3
\* number of distinct energy values the calculator can return
MaxEnergy == 2
\* largest initial layers value given to the constructor
MaxInitLayers == 3
\* largest max_layers given to the constructor
MaxLayerLimit == 2
\* largest lower target thickness given to the constructor
MaxThick == 2
\* largest spacing of the atomic planes the surface builder produces
MaxDz == 2
\* largest trim_z cutoff
MaxCutoff == 2
\* largest nx, ny given to repeat_xy
MaxRepArg == 2
\* cap on super_xyz[0] and super_xyz[1] reached through repeat_xy
RepeatCap == 4
\* largest n_surface and target given to adjust_xy_by_surface_atoms
MaxSurface == 3
\* largest max_xy_repeat given to adjust_xy_by_surface_atoms
MaxXYRepeat == 2
\* number of SlabMaker method calls in a session
MaxCalls == 3

(* ======================================================================= *)
(*                     run_batch_optimizations                             *)
(* ======================================================================= *)
VARIABLES
    dir,        \* basenames in input_dir matching the pattern (the input)
    pc,         \* position in run_batch_optimizations
    files,      \* sorted(glob.glob(...))
    idx,        \* 1-based position of the for loop in files
    energies,   \* {basename: energy}
    failures,   \* {basename: error message}
    relaxed,    \* basenames b whose <b>_relaxed.vasp was written
    summary,    \* summary files written to output_dir
    csv,        \* rows of energies.csv after the header
    attempted,  \* history: basenames in the order the loop body ran on them
    outcome     \* history: basename -> step of the body that raised, or "ok"

bvars == <<dir, pc, files, idx, energies, failures, relaxed, summary, csv,
           attempted, outcome>>

VARIABLES
    slab,              \* self.slab: <<>> for None, else <<[pos, cell]>>
    layers,            \* self.layers
    super_xyz,         \* self.super_xyz
    target_thickness,  \* self.target_thickness
    max_layers,        \* self.max_layers
    op,                \* history: the method called last
    args,              \* history: its arguments
    raised,            \* history: the exception it raised, or "none"
    pre,               \* history: slab, layers, super_xyz before the call
    calls              \* history: number of method calls so far

svars == <<slab, layers, super_xyz, target_thickness, max_layers, op, args,
           raised, pre, calls>>

Names == 1..MaxFiles
Energies == 1..MaxEnergy

\* statements of the loop body that can raise, in program order
BodySteps == <<"read", "set_calculator", "BFGS", "run", "energy", "write">>

StepNames == {BodySteps[k] : k \in 1..Len(BodySteps)}

StepPos(s) == CHOOSE k \in 1..Len(BodySteps) : BodySteps[k] = s

\* statements that lie inside the try block, whose exceptions the
\* except Exception clause catches
CaughtStepsNoRun == StepNames \ {"run"}

CaughtStepsNoRead == StepNames \ {"read"}

CaughtSteps == StepNames

\* line 69 (energies[base] = float(e)) runs when no statement up to and
\* including get_potential_energy raised
EnergyRecorded(out) == out = "ok" \/ StepPos(out) > StepPos("energy")

\* line 73 (write of the relaxed structure) completes only when nothing raised
RelaxedWritten(out) == out = "ok"

RECURSIVE SortedSeq(_)
\* sorted(...) of a set of names: ascending sequence
SortedSeq(S) ==
    IF S = {} THEN <<>>
    ELSE LET m == CHOOSE x \in S : \A y \in S : x <= y
         IN <<m>> \o SortedSeq(S \ {m})

EmptyDict == [b \in {} |-> 0]

DictSet(d, k, v) == [b \in (DOMAIN d) \cup {k} |-> IF b = k THEN v ELSE d[b]]

\* if not files: raise FileNotFoundError
NoFilesRaises(fs) == fs = <<>>

\* rows written to energies.csv: for k in sorted(energies.keys())
CsvRows(en) ==
    LET ks == SortedSeq(DOMAIN en)
    IN [k \in 1..Len(ks) |-> <<ks[k], en[ks[k]]>>]

\* if failures: write failures.json
FailuresFileWritten(fl) == DOMAIN fl /= {}

\* the SlabMaker object is not part of a batch run
SlabIdle ==
    /\ slab = <<>>
    /\ layers = 1
    /\ super_xyz = <<1, 1, 1>>
    /\ target_thickness = <<1, 1>>
    /\ max_layers = 1
    /\ op = "idle"
    /\ args = <<>>
    /\ raised = "none"
    /\ pre = <<>>
    /\ calls = 0

BatchInit ==
    /\ SlabIdle
    /\ dir \in SUBSET Names
    /\ pc = "start"
    /\ files = <<>>
    /\ idx = 0
    /\ energies = EmptyDict
    /\ failures = EmptyDict
    /\ relaxed = {}
    /\ summary = {}
    /\ csv = <<>>
    /\ attempted = <<>>
    /\ outcome = EmptyDict

\* lines 34-47: glob, the empty check, the empty tables
Glob ==
    /\ pc = "start"
    /\ files' = SortedSeq(dir)
    /\ IF NoFilesRaises(files')
         THEN pc' = "raised" /\ idx' = idx
         ELSE pc' = "loop" /\ idx' = 1
    /\ energies' = EmptyDict
    /\ failures' = EmptyDict
    /\ UNCHANGED <<dir, relaxed, summary, csv, attempted, outcome>>
    /\ UNCHANGED svars

\* lines 49-79: one iteration of the for loop; out is the statement of the
\* body that raises ("ok": none), e the energy the calculator returns
ProcessFile ==
    /\ pc = "loop"
    /\ idx <= Len(files)
    /\ \E out \in StepNames \cup {"ok"}, e \in Energies :
         LET base == files[idx] IN
         /\ attempted' = Append(attempted, base)
         /\ outcome' = DictSet(outcome, base, out)
         /\ energies' = IF EnergyRecorded(out)
                          THEN DictSet(energies, base, e) ELSE energies
         /\ relaxed' = IF RelaxedWritten(out)
                         THEN relaxed \cup {base} ELSE relaxed
         /\ IF out = "ok"
              THEN /\ failures' = failures
                   /\ idx' = idx + 1
                   /\ pc' = pc
              ELSE IF out \in CaughtSteps
                THEN /\ failures' = DictSet(failures, base, out)
                     /\ idx' = idx + 1
                     /\ pc' = pc
                ELSE /\ failures' = failures
                     /\ idx' = idx
                     /\ pc' = "raised"
    /\ UNCHANGED <<dir, files, summary, csv>>
    /\ UNCHANGED svars

\* lines 81-104: energies.json, energies.csv, optional failures.json
SaveSummary ==
    /\ pc = "loop"
    /\ idx > Len(files)
    /\ csv' = CsvRows(energies)
    /\ summary' = {"energies.json", "energies.csv"} \cup
                  (IF FailuresFileWritten(failures)
                     THEN {"failures.json"} ELSE {})
    /\ pc' = "done"
    /\ UNCHANGED <<dir, files, idx, energies, failures, relaxed, attempted,
                   outcome>>
    /\ UNCHANGED svars

BatchNext == Glob \/ ProcessFile \/ SaveSummary

vars == <<bvars, svars>>

BatchSpec == BatchInit /\ [][BatchNext]_vars

(* ======================================================================= *)
(*                              SlabMaker                                  *)
(* ======================================================================= *)
\* default vacuum of the constructor
Vacuum == 10

NoSlab == <<>>

Min(a, b) == IF a <= b THEN a ELSE b

SeqMax(q) == CHOOSE m \in {q[k] : k \in DOMAIN q} : \A k \in DOMAIN q : q[k] <= m

SeqMin(q) == CHOOSE m \in {q[k] : k \in DOMAIN q} : \A k \in DOMAIN q : m <= q[k]

Xs(p) == [k \in DOMAIN p |-> p[k][1]]

Ys(p) == [k \in DOMAIN p |-> p[k][2]]

Zs(p) == [k \in DOMAIN p |-> p[k][3]]

\* atoms.repeat(super_xyz) followed by surface(lattice, indices, layers):
\* layers * nz atomic planes d apart, each an nx by ny grid of unit spacing
Surface(sx, l, d) ==
    LET per == sx[1] * sx[2]
        n == l * sx[3] * per
    IN [pos |-> [m \in 1..n |->
                   <<((m - 1) % per) \div sx[2], (m - 1) % sx[2],
                     ((m - 1) \div per) * d>>],
        cell |-> <<sx[1], sx[2]>>]

\* thickness = z.max() - z.min()
Thickness(s) == SeqMax(Zs(s.pos)) - SeqMin(Zs(s.pos))

\* slab.center(vacuum, axis=2): the lowest atom ends up vacuum above the cell
Center(s) ==
    LET zmin == SeqMin(Zs(s.pos))
    IN [s EXCEPT !.pos = [k \in DOMAIN s.pos |->
                            <<s.pos[k][1], s.pos[k][2],
                              s.pos[k][3] - zmin + Vacuum>>]]

\* if layers > self.max_layers: raise RuntimeError
LayerLimitExceeded(l, maxl) == l > maxl

RECURSIVE FitLayers(_, _, _, _, _)
\* lines 33-49: the layer count the while loop ends with, 0 when the loop
\* raises RuntimeError
FitLayers(sx, l, d, t0, maxl) ==
    IF Thickness(Surface(sx, l, d)) < t0
      THEN IF LayerLimitExceeded(l + 1, maxl) THEN 0
           ELSE FitLayers(sx, l + 1, d, t0, maxl)
      ELSE l

\* delete_mask = (z_max - z_values) > cutoff
DeleteMaskInclusive(zmax, z, cutoff) == zmax - z >= cutoff

DeleteMask(zmax, z, cutoff) == zmax - z > cutoff

RECURSIVE Keep(_, _)
\* atoms[mask]: the atoms whose mask entry is true, in order
Keep(p, mask) ==
    IF p = <<>> THEN <<>>
    ELSE (IF mask[1] THEN <<Head(p)>> ELSE <<>>) \o Keep(Tail(p), Tail(mask))

\* lines 69-78 of trim_z
Trimmed(s, cutoff) ==
    LET zmax == SeqMax(Zs(s.pos))
    IN [s EXCEPT !.pos = Keep(s.pos, [k \in DOMAIN s.pos |->
                                ~DeleteMask(zmax, s.pos[k][3], cutoff)])]

\* int(np.ceil(np.sqrt(target / n_surface))) for 0 < n_surface < target
CeilSqrtRatio(target, n) ==
    CHOOSE k \in 0..target : k * k * n >= target /\
                             \A j \in 0..(k - 1) : j * j * n < target

\* lines 112-116
Scale(n_surface, target) ==
    IF n_surface <= 0 THEN 2 ELSE CeilSqrtRatio(target, n_surface)

\* new_nx = min(self.super_xyz[0] * scale, max_xy_repeat)
NewRepeatUnbounded(s, scale, max_xy_repeat) == s * scale

NewRepeat(s, scale, max_xy_repeat) == Min(s * scale, max_xy_repeat)

\* lines 139-166: keep_xy, the atoms inside the central rectangle whose sides
\* are sqrt(target / n_surface) times the bounding box; the comparison
\* |x - x_center| <= 0.5 * width * sqrt(target / n) is squared to stay in the
\* integers, and sqrt of a negative ratio is nan, which compares false
KeepXY(p, n_surface, target) ==
    LET xmin == SeqMin(Xs(p))
        xmax == SeqMax(Xs(p))
        ymin == SeqMin(Ys(p))
        ymax == SeqMax(Ys(p))
        wx == xmax - xmin
        wy == ymax - ymin
        In(v, lo, hi, w) ==
            (2 * v - hi - lo) * (2 * v - hi - lo) * n_surface <= w * w * target
    IN [k \in DOMAIN p |->
          /\ target >= 0
          /\ In(p[k][1], xmin, xmax, wx)
          /\ In(p[k][2], ymin, ymax, wy)]

\* self.slab.repeat((nx, ny, 1))
Repeated(s, nx, ny) ==
    LET n == Len(s.pos)
    IN [pos |-> [q \in 1..(n * nx * ny) |->
                   LET a == s.pos[((q - 1) % n) + 1]
                       b == (q - 1) \div n
                   IN <<a[1] + (b \div ny) * s.cell[1],
                        a[2] + (b % ny) * s.cell[2], a[3]>>],
        cell |-> <<nx * s.cell[1], ny * s.cell[2]>>]

\* if nx <= 0 or ny <= 0: raise ValueError
RepeatArgsInvalidXOnly(nx, ny) == nx <= 0

RepeatArgsInvalid(nx, ny) == nx <= 0 \/ ny <= 0

Snapshot == [slab |-> slab, layers |-> layers, super_xyz |-> super_xyz]

\* the batch optimizer is not part of a SlabMaker session
BatchIdle ==
    /\ dir = {}
    /\ pc = "idle"
    /\ files = <<>>
    /\ idx = 0
    /\ energies = EmptyDict
    /\ failures = EmptyDict
    /\ relaxed = {}
    /\ summary = {}
    /\ csv = <<>>
    /\ attempted = <<>>
    /\ outcome = EmptyDict

\* constructor arguments: super_xyz
InitSupers == {<<1, 1, 1>>, <<2, 1, 1>>, <<1, 1, 2>>}

\* lines 16-27: the object after __init__
SlabInit ==
    /\ BatchIdle
    /\ slab = NoSlab
    /\ layers \in 1..MaxInitLayers
    /\ super_xyz \in InitSupers
    /\ target_thickness \in {<<a, a + 1>> : a \in 1..MaxThick}
    /\ max_layers \in 1..MaxLayerLimit
    /\ op = "__init__"
    /\ args = <<>>
    /\ raised = "none"
    /\ pre = [slab |-> NoSlab, layers |-> layers, super_xyz |-> super_xyz]
    /\ calls = 0

Called(name, a) ==
    /\ calls < MaxCalls
    /\ calls' = calls + 1
    /\ op' = name
    /\ args' = a
    /\ pre' = Snapshot
    /\ UNCHANGED <<target_thickness, max_layers>>
    /\ UNCHANGED bvars

\* lines 29-56 on the supercell sx: readok is whether io.read succeeds, d the
\* plane spacing of the surface built from this supercell
Fit(sx, readok, d) ==
    IF ~readok
      THEN /\ raised' = "IOError"
           /\ UNCHANGED <<slab, layers>>
      ELSE LET f == FitLayers(sx, layers, d, target_thickness[1], max_layers)
           IN IF f = 0
                THEN /\ raised' = "RuntimeError"
                     /\ UNCHANGED <<slab, layers>>
                ELSE /\ raised' = "none"
                     /\ slab' = <<Center(Surface(sx, f, d))>>
                     /\ layers' = f

\* SlabMaker.slab_z_fitter
slab_z_fitter ==
    \E readok \in BOOLEAN, d \in 1..MaxDz :
      /\ Called("slab_z_fitter", <<>>)
      /\ Fit(super_xyz, readok, d)
      /\ UNCHANGED super_xyz

\* SlabMaker.trim_z; numpy raises ValueError for the max of an empty array
trim_z ==
    \E cutoff \in (-1)..MaxCutoff :
      /\ Called("trim_z", <<cutoff>>)
      /\ IF slab = NoSlab \/ slab[1].pos = <<>>
           THEN raised' = "ValueError" /\ UNCHANGED slab
           ELSE raised' = "none" /\ slab' = <<Trimmed(slab[1], cutoff)>>
      /\ UNCHANGED <<layers, super_xyz>>

\* SlabMaker.adjust_xy_by_surface_atoms
adjust_xy_by_surface_atoms ==
    \E n_surface \in 0..MaxSurface, target \in 0..MaxSurface,
       max_xy_repeat \in 1..MaxXYRepeat, readok \in BOOLEAN, d \in 1..MaxDz :
      /\ Called("adjust_xy_by_surface_atoms",
                <<n_surface, target, max_xy_repeat>>)
      /\ IF slab = NoSlab
           THEN raised' = "ValueError" /\ UNCHANGED <<slab, layers, super_xyz>>
         ELSE IF n_surface = target
           THEN raised' = "none" /\ UNCHANGED <<slab, layers, super_xyz>>
         ELSE IF n_surface < target
           THEN LET scale == Scale(n_surface, target)
                    new_nx == NewRepeat(super_xyz[1], scale, max_xy_repeat)
                    new_ny == NewRepeat(super_xyz[2], scale, max_xy_repeat)
                    new_xyz == <<new_nx, new_ny, super_xyz[3]>>
                IN IF new_nx = super_xyz[1] /\ new_ny = super_xyz[2]
                     THEN /\ raised' = "none"
                          /\ UNCHANGED <<slab, layers, super_xyz>>
                     ELSE /\ super_xyz' = new_xyz
                          /\ Fit(new_xyz, readok, d)
         ELSE IF slab[1].pos = <<>>
           THEN raised' = "ValueError" /\ UNCHANGED <<slab, layers, super_xyz>>
         ELSE LET keep_xy == KeepXY(slab[1].pos, n_surface, target)
                  kept == Keep(slab[1].pos, keep_xy)
              IN /\ raised' = "none"
                 /\ slab' = IF kept = <<>> THEN slab
                            ELSE <<[slab[1] EXCEPT !.pos = kept]>>
                 /\ UNCHANGED <<layers, super_xyz>>

\* SlabMaker.save_poscar; writeok is whether io.write succeeds
save_poscar ==
    \E writeok \in BOOLEAN :
      /\ Called("save_poscar", <<>>)
      /\ raised' = IF slab = NoSlab THEN "ValueError"
                   ELSE IF writeok THEN "none" ELSE "IOError"
      /\ UNCHANGED <<slab, layers, super_xyz>>

\* SlabMaker.view
view ==
    /\ Called("view", <<>>)
    /\ raised' = IF slab = NoSlab THEN "ValueError" ELSE "none"
    /\ UNCHANGED <<slab, layers, super_xyz>>

\* SlabMaker.repeat_xy
repeat_xy ==
    \E nx \in 0..MaxRepArg, ny \in 0..MaxRepArg :
      /\ super_xyz[1] * nx <= RepeatCap
      /\ super_xyz[2] * ny <= RepeatCap
      /\ Called("repeat_xy", <<nx, ny>>)
      /\ IF slab = NoSlab \/ RepeatArgsInvalid(nx, ny)
           THEN raised' = "ValueError" /\ UNCHANGED <<slab, super_xyz>>
           ELSE /\ raised' = "none"
                /\ slab' = <<Repeated(slab[1], nx, ny)>>
                /\ super_xyz' = <<super_xyz[1] * nx, super_xyz[2] * ny,
                                  super_xyz[3]>>
      /\ UNCHANGED layers

SlabNext ==
    \/ slab_z_fitter
    \/ trim_z
    \/ adjust_xy_by_surface_atoms
    \/ save_poscar
    \/ view
    \/ repeat_xy

SlabSpec == SlabInit /\ [][SlabNext]_vars

(* ======================================================================= *)
(*                    Properties of run_batch_optimizations                *)
(* ======================================================================= *)
Failed(b) == b \in DOMAIN outcome /\ outcome[b] /= "ok"

\* C1: after run_batch_optimizations finishes, every matched file is a key of
\* the energies table or of the failures table, and never of both, whatever
\* step of the per-file body raised.
C1_OneEntryPerFile ==
    pc = "done" =>
      \A k \in 1..Len(files) :
        (files[k] \in DOMAIN energies) /= (files[k] \in DOMAIN failures)

\* C2: an exception raised while optimizing one file never stops the batch:
\* the run raises only when no file matched; when it is done every matched
\* file was attempted exactly once in sorted order, every failing file has a
\* failures entry, and the energy summary and the failures file were written.
C2_BatchContinues ==
    /\ pc = "raised" => files = <<>>
    /\ \A k \in 1..Len(attempted) : attempted[k] = files[k]
    /\ \A k \in 1..(Len(files) - 1) : files[k] < files[k + 1]
    /\ \A b \in DOMAIN outcome : Failed(b) => b \in DOMAIN failures
    /\ pc = "done" =>
         /\ attempted = files
         /\ {"energies.json", "energies.csv"} \subseteq summary
         /\ (\E b \in DOMAIN outcome : Failed(b)) => "failures.json" \in summary

\* a finished run in which a file failed in the optimizer and a later file
\* was still optimized
C2_Witness ==
    /\ pc = "done"
    /\ \E j, k \in 1..Len(files) :
         /\ j < k
         /\ outcome[files[j]] = "run"
         /\ outcome[files[k]] = "ok"

\* C3 as stated: a malformed input file that fails to be read ends the run
\* with the exception, is not recorded in the failures table, and the
\* remaining files are not processed.
C3_ReadErrorPropagates ==
    \A b \in DOMAIN outcome :
      outcome[b] = "read" =>
        /\ pc = "raised"
        /\ b \notin DOMAIN failures

\* C3 amended: no matched file ends the run with FileNotFoundError before
\* any file is processed, recorded or written; a file that fails to be read
\* is caught like any other per-file exception: it is recorded in the
\* failures table, gets no energy entry, and the remaining files are
\* processed.
C3_ReadErrorCaught ==
    /\ (pc /= "start" /\ files = <<>>) =>
         /\ pc = "raised"
         /\ attempted = <<>>
         /\ DOMAIN failures = {}
         /\ DOMAIN energies = {}
         /\ summary = {}
    /\ \A b \in DOMAIN outcome :
         outcome[b] = "read" =>
           /\ pc /= "raised"
           /\ b \in DOMAIN failures
           /\ b \notin DOMAIN energies
    /\ pc = "done" => attempted = files

\* a finished run in which a file failed to be read and the next file was
\* processed
C3_Witness ==
    /\ pc = "done"
    /\ \E k \in 1..(Len(files) - 1) :
         /\ outcome[files[k]] = "read"
         /\ files[k] \in DOMAIN failures
         /\ files[k + 1] \in DOMAIN outcome

\* C4: when the loop completed, energies.json and energies.csv are written,
\* the CSV holds one row per energies entry in sorted filename order,
\* failures.json is written iff a file failed, and a relaxed structure was
\* written for exactly the files that have an energy entry.
C4_OutputFiles ==
    pc = "done" =>
      /\ {"energies.json", "energies.csv"} \subseteq summary
      /\ Len(csv) = Cardinality(DOMAIN energies)
      /\ \A k \in 1..Len(csv) :
           /\ csv[k][1] \in DOMAIN energies
           /\ csv[k][2] = energies[csv[k][1]]
      /\ \A k \in 1..(Len(csv) - 1) : csv[k][1] < csv[k + 1][1]
      /\ ("failures.json" \in summary) <=> (\E b \in DOMAIN outcome : Failed(b))
      /\ relaxed = DOMAIN energies

(* ======================================================================= *)
(*                         Properties of SlabMaker                         *)
(* ======================================================================= *)
\* C5: whenever slab_z_fitter returns normally, the thickness of the slab it
\* stores lies within target_thickness: at least target_thickness[0] and at
\* most target_thickness[1].
C5_ThicknessInRange ==
    (op = "slab_z_fitter" /\ raised = "none") =>
      /\ Thickness(slab[1]) >= target_thickness[1]
      /\ Thickness(slab[1]) <= target_thickness[2]

AdjustTooFew ==
    /\ op = "adjust_xy_by_surface_atoms"
    /\ pre.slab /= NoSlab
    /\ args[1] < args[2]

KeptBelowTop(p, cutoff) ==
    LET zmax == SeqMax(Zs(p))
        Near(a) == zmax - a[3] <= cutoff
    IN SelectSeq(p, Near)

\* C7: trim_z(cutoff) leaves exactly the atoms with z_max - z_i <= cutoff of
\* the slab before the call, in their original order, and for cutoff >= 0 a
\* second trim_z with the same cutoff removes nothing.
C7_TrimExact ==
    (op = "trim_z" /\ raised = "none") =>
      /\ slab[1].pos = KeptBelowTop(pre.slab[1].pos, args[1])
      /\ slab[1].cell = pre.slab[1].cell
      /\ args[1] >= 0 =>
           /\ slab[1].pos /= <<>>
           /\ Trimmed(slab[1], args[1]) = slab[1]

\* a trim that removed some atoms and kept others
C7_Witness ==
    /\ op = "trim_z"
    /\ raised = "none"
    /\ args[1] >= 0
    /\ Len(slab[1].pos) > 0
    /\ Len(slab[1].pos) < Len(pre.slab[1].pos)

\* C8: whenever slab_z_fitter returns normally the stored self.layers is at
\* most max_layers, for every initial layers value.
C8_LayersBounded ==
    (op = "slab_z_fitter" /\ raised = "none") => layers <= max_layers

NeedsSlab == {"trim_z", "adjust_xy_by_surface_atoms", "save_poscar", "view",
              "repeat_xy"}

\* C9 as stated: any SlabMaker operation that raises leaves self.slab,
\* self.layers and self.super_xyz as they were before the call.
C9_RaiseLeavesState ==
    raised /= "none" => Snapshot = pre

\* C9 amended: the operations that need a slab raise ValueError when none was
\* created, repeat_xy raises ValueError when nx <= 0 or ny <= 0, and an
\* operation that raises leaves self.slab and self.layers unchanged, and
\* self.super_xyz too except when slab_z_fitter fails inside
\* adjust_xy_by_surface_atoms, where super_xyz[0] and super_xyz[1] already
\* hold the new repeat counts.
C9_RaiseLeavesSlab ==
    /\ (op \in NeedsSlab /\ pre.slab = NoSlab) => raised = "ValueError"
    /\ (op = "repeat_xy" /\ (args[1] <= 0 \/ args[2] <= 0)) =>
         raised = "ValueError"
    /\ raised /= "none" =>
         /\ slab = pre.slab
         /\ layers = pre.layers
         /\ \/ super_xyz = pre.super_xyz
            \/ /\ AdjustTooFew
               /\ raised /= "ValueError"
               /\ super_xyz[3] = pre.super_xyz[3]
               /\ \A i \in 1..2 :
                    super_xyz[i] =
                      Min(pre.super_xyz[i] * Scale(args[1], args[2]), args[3])

\* slab_z_fitter exceeded the layer limit inside adjust_xy_by_surface_atoms
\* after the repeat counts were updated
C9_Witness ==
    /\ op = "adjust_xy_by_surface_atoms"
    /\ raised = "RuntimeError"
    /\ super_xyz /= pre.super_xyz
    /\ slab = pre.slab

====
